---- MODULE Spec2Model ----
(***************************************************************************)
(* Arc history -> Firefox places.sqlite importer (src/main.py).            *)
(*                                                                         *)
(* JSON values are tagged records: [t |-> "null"], [t |-> "str", v |-> a   *)
(* sequence of characters], [t |-> "num", v |-> a number], [t |-> "dict",  *)
(* v |-> a function from keys to JSON values].  A number is held exactly   *)
(* as [s |-> whole seconds, f |-> fraction in ticks], TicksPerMicro ticks  *)
(* to the microsecond.  A Firefox time (integer microseconds since 1970)   *)
(* exceeds the integers of the model checker, so it is held exactly as     *)
(* [s |-> seconds, us |-> microseconds within the second], ordered         *)
(* lexicographically; binary64 rounding of the source is not modelled.     *)
(***************************************************************************)
EXTENDS Integers, Sequences, FiniteSets, TLC

VARIABLES
    doc,                  \* the archive file given to the current run
    parsed,               \* result of parse_arc_history (SpecParse)
    store,                \* committed contents of places.sqlite
    conn,                 \* the connection's view inside its transaction
    pc,                   \* position of the process
    visits,               \* VisitsByUrl: sequence of [url, list], dict order
    ui,                   \* index of the URL of the outer loop
    vi,                   \* index of the visit of the inner loop
    place_id,
    place_id_counter,
    visit_id_counter,
    inserted_count,
    total_visits_added,
    clock,                \* last value datetime.now() returned
    pre,                  \* committed store when the current run started
    run,                  \* the current (or last finished) run
    used                  \* archive items handed to runs so far

vars == <<doc, parsed, store, conn, pc, visits, ui, vi, place_id,
          place_id_counter, visit_id_counter, inserted_count,
          total_visits_added, clock, pre, run, used>>

-----------------------------------------------------------------------------
(* Bounds of the model *)

\* Sub-microsecond resolution of source timestamps (ticks per microsecond).
TicksPerMicro == 2
\* Items of one archive in the parser specification.
MaxParseItems == 2
\* Archive items handed to runs of main, over all runs of a behaviour.
MaxItems == 2

-----------------------------------------------------------------------------
(* JSON values and Python's view of them *)

JNull == [t |-> "null"]
JStr(s) == [t |-> "str", v |-> s]
JNum(s, f) == [t |-> "num", v |-> [s |-> s, f |-> f]]
JDict(d) == [t |-> "dict", v |-> d]
EmptyDict == JDict(<<>>)

\* isinstance(x, dict)
IsDict(x) == x.t = "dict"

\* k in d
HasKey(d, k) == k \in DOMAIN d.v

\* d.get(k, default)
Get(d, k, default) == IF HasKey(d, k) THEN d.v[k] ELSE default

\* bool(x)
Truthy(x) ==
    CASE x.t = "null" -> FALSE
      [] x.t = "str"  -> Len(x.v) > 0
      [] x.t = "num"  -> ~(x.v.s = 0 /\ x.v.f = 0)
      [] x.t = "dict" -> DOMAIN x.v # {}

\* a or b
PyOr(a, b) == IF Truthy(a) THEN a ELSE b

IsSpace(c) == c = " "

RECURSIVE LStrip(_)
LStrip(s) == IF Len(s) > 0 /\ IsSpace(Head(s)) THEN LStrip(Tail(s)) ELSE s

RECURSIVE RStrip(_)
RStrip(s) ==
    IF Len(s) > 0 /\ IsSpace(s[Len(s)])
    THEN RStrip(SubSeq(s, 1, Len(s) - 1))
    ELSE s

\* str.strip()
Strip(s) == LStrip(RStrip(s))

\* s[::-1]
Reverse(s) == [i \in 1..Len(s) |-> s[Len(s) + 1 - i]]

\* s.split('/'): segs are the finished segments, cur the open one
RECURSIVE SplitFrom(_, _, _)
SplitFrom(s, segs, cur) ==
    IF s = <<>> THEN Append(segs, cur)
    ELSE IF Head(s) = "/" THEN SplitFrom(Tail(s), Append(segs, cur), <<>>)
    ELSE SplitFrom(Tail(s), segs, Append(cur, Head(s)))

Split(s) == SplitFrom(s, <<>>, <<>>)

-----------------------------------------------------------------------------
(* Time/score functions *)

mac_epoch == 978307200

NULL == [null |-> TRUE]
FfZero == [s |-> 0, us |-> 0]

\* a > b on Firefox times
FfGreater(a, b) == a.s > b.s \/ (a.s = b.s /\ a.us > b.us)

\* a < b on source numbers
NumLess(a, b) == a.s < b.s \/ (a.s = b.s /\ a.f < b.f)

\* arc_timestamp + mac_epoch raises TypeError unless arc_timestamp is a number
TimeRaises(ts) == ts.t # "num"

\* int((arc_timestamp + mac_epoch) * 1_000_000), for a sum that is not negative
arc_to_firefox_time(ts) ==
    [s |-> ts.v.s + mac_epoch, us |-> ts.v.f \div TicksPerMicro]

\* (now - last_visit_time) / (24 * 60 * 60 * 1_000_000) < days, in exact arithmetic
DaysAgoLess(now, last, days) ==
    LET ds == now.s - last.s
        dus == now.us - last.us
    IN  ds < days * (24 * 60 * 60) \/ (ds = days * (24 * 60 * 60) /\ dus < 0)

Min(a, b) == IF a < b THEN a ELSE b

calculate_frecency(visit_count, last_visit_time, now) ==
    LET base_score == visit_count * 100
        recency_bonus ==
            IF DaysAgoLess(now, last_visit_time, 1) THEN 1000
            ELSE IF DaysAgoLess(now, last_visit_time, 7) THEN 500
            ELSE IF DaysAgoLess(now, last_visit_time, 30) THEN 100
            ELSE 0
    IN  Min(base_score + recency_bonus, 10000)

\* h & 0x7fffffff for a hash h within 32 bits
calculate_url_hash(h) == IF h >= 0 THEN h ELSE (h + 2147483647) + 1

\* hash(url) is keyed by a per-process random seed: any of these values
PyHashValues == {-1, 5}

\* values datetime.now() takes: half a day and ten days after second 200
NowValues ==
    {[s |-> 200 + mac_epoch + 12 * 60 * 60, us |-> 0],
     [s |-> 200 + mac_epoch + 10 * 24 * 60 * 60, us |-> 0]}

-----------------------------------------------------------------------------
(* Archive items *)

ChA == <<"s", ":", "/", "/", "x", "y", "/", "a">>
ChB == <<"b">>
TitleP == <<"p">>
TitleQ == <<"q">>

\* a well-formed item carrying archivedAt
Item(url, title, ts) ==
    JDict([sidebarItem |->
              JDict([id |-> JStr(<<"i">>),
                     data |-> JDict([tab |-> JDict([savedTitle |-> title,
                                                    savedURL |-> url])])]),
           archivedAt |-> ts])

\* an item whose tab data is `tab`, with the fallback timestamp in the tab
TabItem(tab) ==
    JDict([sidebarItem |-> JDict([id |-> JStr(<<"i">>),
                                  data |-> JDict([tab |-> tab])])])

T50 == JNum(50, 0)
T100 == JNum(100, 0)
T100x == JNum(100, 1)
T200 == JNum(200, 0)
TEpoch == JNum(0 - mac_epoch, 0)
TBad == JStr(<<"x">>)

Pool ==
    << \* 1..6: the items import runs draw from
       Item(JStr(ChA), JStr(TitleP), T100),
       Item(JStr(ChA), JStr(TitleQ), T100x),
       Item(JStr(ChA), JStr(TitleQ), T200),
       TabItem(JDict([savedTitle |-> JStr(TitleP), savedURL |-> JStr(ChB),
                      timeLastActiveAt |-> T50])),
       Item(JStr(ChB), JStr(TitleQ), TEpoch),
       Item(JStr(ChB), JStr(TitleP), TBad),
       \* 7..: further shapes for the parser
       Item(JStr(<<" ", "b">>), JStr(TitleP), T100),
       Item(JStr(<<"b", " ">>), JStr(TitleQ), T200),
       Item(JStr(<<" ", " ">>), JStr(TitleP), T100),
       Item(JStr(<<>>), JStr(TitleP), T100),
       Item(JStr(ChB), JStr(<<>>), T100),
       Item(JNum(5, 0), JStr(TitleP), T100),
       Item(JStr(ChB), JNum(5, 0), T100),
       TabItem(JDict([savedTitle |-> JStr(TitleP)])),
       TabItem(JDict([savedURL |-> JStr(ChB), timeLastActiveAt |-> T100])),
       TabItem(JDict([savedTitle |-> JStr(TitleP), savedURL |-> JStr(ChB)])),
       JDict([sidebarItem |->
                 JDict([data |-> JDict([tab |->
                     JDict([savedTitle |-> JStr(TitleP), savedURL |-> JStr(ChB),
                            timeLastActiveAt |-> T100])])]),
              archivedAt |-> JNum(0, 0)]),
       JStr(<<"x">>),
       JDict([archivedAt |-> T100]),
       JDict([sidebarItem |-> JNull, archivedAt |-> T100]),
       JDict([sidebarItem |-> JStr(<<"x">>), archivedAt |-> T100]),
       JDict([sidebarItem |-> EmptyDict, archivedAt |-> T100]),
       JDict([sidebarItem |-> JDict([data |-> JNull]), archivedAt |-> T100]),
       JDict([sidebarItem |-> JDict([data |-> EmptyDict]), archivedAt |-> T100]),
       JDict([sidebarItem |-> JDict([data |-> JDict([tab |-> JStr(<<"x">>)])]),
              archivedAt |-> T100])
    >>

ImportItems == 1..6
ParseItems == 1..Len(Pool)

\* sequences over S of length 0..n
RECURSIVE SeqsUpTo(_, _)
SeqsUpTo(S, n) ==
    IF n = 0 THEN {<<>>}
    ELSE LET shorter == SeqsUpTo(S, n - 1)
         IN  shorter \cup {Append(q, x) : q \in shorter, x \in S}

\* the parsed JSON document of an archive file whose items are the indices `items`
ArcData(items) == JDict([items |-> [i \in 1..Len(items) |-> Pool[items[i]]]])

-----------------------------------------------------------------------------
(* parse_arc_history *)

\* visits[key].append(rec), keys kept in insertion order
AppendVisit(vs, key, rec) ==
    IF \E i \in 1..Len(vs) : vs[i].url = key
    THEN [i \in 1..Len(vs) |->
            IF vs[i].url = key
            THEN [vs[i] EXCEPT !.list = Append(@, rec)]
            ELSE vs[i]]
    ELSE Append(vs, [url |-> key, list |-> <<rec>>])

\* the body of the loop for one item: the new map, or an AttributeError
ParseItem(vs, item) ==
    IF ~(IsDict(item) /\ HasKey(item, "sidebarItem"))
    THEN [ok |-> TRUE, visits |-> vs]
    ELSE
    LET sb == item.v["sidebarItem"] IN
    IF ~IsDict(sb) THEN [ok |-> FALSE, visits |-> vs] ELSE
    LET data == Get(sb, "data", EmptyDict) IN
    IF ~IsDict(data) THEN [ok |-> FALSE, visits |-> vs] ELSE
    LET tab == Get(data, "tab", EmptyDict) IN
    IF ~IsDict(tab) THEN [ok |-> FALSE, visits |-> vs] ELSE
    LET title == Get(tab, "savedTitle", JNull)
        url == Get(tab, "savedURL", JNull)
        arc_id == Get(sb, "id", JNull)
        timestamp == PyOr(Get(item, "archivedAt", JNull),
                          Get(tab, "timeLastActiveAt", JNull))
    IN  IF Truthy(title) /\ Truthy(url) /\ Truthy(timestamp)
        THEN IF url.t # "str"
             THEN [ok |-> FALSE, visits |-> vs]
             ELSE [ok |-> TRUE,
                   visits |-> AppendVisit(vs, Strip(url.v),
                                 [title |-> title, id |-> arc_id,
                                  timestamp |-> timestamp])]
        ELSE [ok |-> TRUE, visits |-> vs]

RECURSIVE ParseLoop(_, _)
ParseLoop(vs, items) ==
    IF items = <<>> THEN [ok |-> TRUE, visits |-> vs]
    ELSE LET r == ParseItem(vs, Head(items))
         IN  IF r.ok THEN ParseLoop(r.visits, Tail(items)) ELSE r

parse_arc_history(arc_data) ==
    ParseLoop(<<>>, Get(arc_data, "items", <<>>))

-----------------------------------------------------------------------------
(* The destination store *)

EmptyStore == [places |-> {}, visits |-> {}]
NoConn == [closed |-> TRUE]

\* a store Firefox left behind: the first URL visited once
SeedStore ==
    [places |->
        {[id |-> 3, url |-> ChA, title |-> JStr(<<"o">>),
          rev_host |-> <<"y", "x", ".">>, visit_count |-> 5, hidden |-> 0,
          typed |-> 0, frecency |-> 77,
          last_visit_date |-> arc_to_firefox_time(T100),
          guid |-> <<"g", 3>>, foreign_count |-> 1, url_hash |-> 9]},
     visits |->
        {[id |-> 4, from_visit |-> 0, place_id |-> 3,
          visit_date |-> arc_to_firefox_time(T100), visit_type |-> 1,
          session |-> 0]}]

\* a store holding the second URL as a place never visited (a bookmark)
NullStore ==
    [places |->
        {[id |-> 2, url |-> ChB, title |-> JStr(<<"o">>),
          rev_host |-> <<>>, visit_count |-> 0, hidden |-> 1,
          typed |-> 0, frecency |-> 0,
          last_visit_date |-> NULL,
          guid |-> <<"g", 2>>, foreign_count |-> 1, url_hash |-> 8]},
     visits |-> {}]

InitStores == {EmptyStore, SeedStore, NullStore}

\* SELECT MAX(id) FROM table; fetchone()[0] or 0
MaxIdOrZero(rows) ==
    IF rows = {} THEN 0
    ELSE LET m == CHOOSE r \in rows : \A q \in rows : q.id <= r.id
         IN  m.id

\* variant: the lookup never matches
PlacesByUrlMiss(db, url) == {}

\* SELECT ... FROM moz_places WHERE url = ?
PlacesByUrl(db, url) == {p \in db.places : p.url = url}

\* variant: the duplicate check is dropped
VisitsAtUnchecked(db, pid, visit_time) == {}

\* SELECT id FROM moz_historyvisits WHERE place_id = ? AND visit_date = ?
VisitsAt(db, pid, visit_time) ==
    {v \in db.visits : v.place_id = pid /\ v.visit_date = visit_time}

\* existing_last_visit or 0
OrZero(x) == IF x = NULL THEN FfZero ELSE x

\* variant: >= in place of >
IsNewerOrEqual(last_visit_time, existing_last_visit) ==
    ~FfGreater(OrZero(existing_last_visit), last_visit_time)

\* variant: the comparison is dropped, every existing place is updated
IsNewerAlways(last_visit_time, existing_last_visit) == TRUE

\* last_visit_time > (existing_last_visit or 0)
IsNewer(last_visit_time, existing_last_visit) ==
    FfGreater(last_visit_time, OrZero(existing_last_visit))

\* variant: the first record, whatever its timestamp
LatestFirst(visit_list) == visit_list[1]

\* max(visit_list, key=lambda v: v["timestamp"]): the first of the greatest
Latest(visit_list) ==
    LET i == CHOOSE i \in 1..Len(visit_list) :
                 /\ \A j \in 1..Len(visit_list) :
                        ~NumLess(visit_list[i].timestamp.v, visit_list[j].timestamp.v)
                 /\ \A j \in 1..(i - 1) :
                        NumLess(visit_list[j].timestamp.v, visit_list[i].timestamp.v)
    IN  visit_list[i]

\* lines 134-136 raise TypeError when a timestamp is not a number
PlaceRaises(visit_list) ==
    \E i \in 1..Len(visit_list) : TimeRaises(visit_list[i].timestamp)

\* url.split('/')[2][::-1] if len(url.split('/')) > 2 else ''
RevHost(url) ==
    LET parts == Split(url)
    IN  IF Len(parts) > 2 THEN Reverse(parts[3]) ELSE <<>>

NewPlace(id, url, title, visit_count, frecency, last_visit_time, h) ==
    [id |-> id, url |-> url, title |-> title, rev_host |-> RevHost(url),
     visit_count |-> visit_count, hidden |-> 0, typed |-> 1,
     frecency |-> frecency, last_visit_date |-> last_visit_time,
     guid |-> <<"arc_", id>>, foreign_count |-> 0,
     url_hash |-> calculate_url_hash(h)]

UpdatedPlace(p, title, last_visit_time, visit_count, frecency) ==
    [p EXCEPT !.title = title, !.last_visit_date = last_visit_time,
              !.visit_count = @ + visit_count, !.frecency = frecency,
              !.typed = 1, !.hidden = 0]

NewVisit(id, pid, visit_time) ==
    [id |-> id, from_visit |-> 0, place_id |-> pid, visit_date |-> visit_time,
     visit_type |-> 1, session |-> 0]

-----------------------------------------------------------------------------
(* Archive files and runs *)

Doc(kind, items) == [kind |-> kind, items |-> items]

\* variant: a file that does not decode is taken as an empty object
load_arc_data_lenient(d) ==
    CASE d.kind = "garbage" -> [ok |-> TRUE, data |-> EmptyDict]
      [] d.kind = "array"   -> [ok |-> TRUE, data |-> JNull]
      [] d.kind = "noitems" -> [ok |-> TRUE, data |-> EmptyDict]
      [] d.kind = "items"   -> [ok |-> TRUE, data |-> ArcData(d.items)]

\* what json.load gives for the file: garbage does not decode
load_arc_data(d) ==
    CASE d.kind = "garbage" -> [ok |-> FALSE, data |-> JNull]
      [] d.kind = "array"   -> [ok |-> TRUE, data |-> JNull]
      [] d.kind = "noitems" -> [ok |-> TRUE, data |-> EmptyDict]
      [] d.kind = "items"   -> [ok |-> TRUE, data |-> ArcData(d.items)]

NoDoc == Doc("none", <<>>)

\* the documented end-to-end archive: the first URL at 100 and 200, the second
\* at 50; it may be the first archive of a behaviour whatever the bound
ScenarioDoc == Doc("items", <<1, 3, 4>>)
NoRun == [dry |-> FALSE, outcome |-> "none", exit |-> 0,
          opened |-> FALSE, rerun |-> FALSE, dirty |-> FALSE,
          result |-> <<0, 0>>]

Running == {"connect", "url", "visit"}

\* the run ends: the process exits and its locals are gone
Finish(outcome, exit, result) ==
    /\ pc' = "idle"
    /\ run' = [run EXCEPT !.outcome = outcome, !.exit = exit, !.result = result,
                          !.dirty = (conn # NoConn /\ conn # store)]
    /\ conn' = NoConn
    /\ ui' = 0 /\ vi' = 0 /\ place_id' = 0
    /\ place_id_counter' = 0 /\ visit_id_counter' = 0
    /\ inserted_count' = 0 /\ total_visits_added' = 0

InitCommon ==
    /\ parsed = [ok |-> TRUE, visits |-> <<>>]
    /\ conn = NoConn
    /\ visits = <<>>
    /\ ui = 0 /\ vi = 0 /\ place_id = 0
    /\ place_id_counter = 0 /\ visit_id_counter = 0
    /\ inserted_count = 0 /\ total_visits_added = 0
    /\ clock = FfZero
    /\ run = NoRun
    /\ used = 0

Init ==
    /\ InitCommon
    /\ doc = NoDoc
    /\ pc = "idle"
    /\ store \in InitStores
    /\ pre = store

\* main, lines 232-239 and 265-267: validate_file_paths raises, no file is read
BadPaths ==
    /\ pc = "idle"
    /\ run.outcome # "precondition"
    /\ doc' = NoDoc
    /\ pre' = store
    /\ run' = [NoRun EXCEPT !.outcome = "precondition", !.exit = 1]
    /\ visits' = <<>>
    /\ UNCHANGED <<parsed, store, conn, pc, ui, vi, place_id, place_id_counter,
                   visit_id_counter, inserted_count, total_visits_added, clock,
                   used>>

\* main, lines 232-258 with valid paths: load, parse, and either stop or go on
\* to import.  A run on the archive file of the run before it is not charged
\* to the bound again.
StartRun(d, dry) ==
    /\ pc = "idle"
    /\ \/ d = doc
       \/ used + Len(d.items) <= MaxItems
       \/ used = 0 /\ d = ScenarioDoc
    /\ used' = IF d = doc THEN used ELSE used + Len(d.items)
    /\ doc' = d
    /\ pre' = store
    /\ LET loaded == load_arc_data(d)
           r == IF loaded.ok /\ IsDict(loaded.data)
                THEN parse_arc_history(loaded.data)
                ELSE [ok |-> FALSE, visits |-> <<>>]
           started == [NoRun EXCEPT !.dry = dry,
                          !.rerun = (doc = d /\ run.outcome = "ok")]
           ended(outcome, exit) ==
               /\ pc' = "idle"
               /\ run' = [started EXCEPT !.outcome = outcome, !.exit = exit]
               /\ visits' = <<>>
       IN  IF ~loaded.ok THEN ended("format", 1)
           ELSE IF ~r.ok THEN ended("unexpected", 1)
           ELSE IF dry THEN ended("dry", 0)
           ELSE /\ pc' = "connect"
                /\ run' = [started EXCEPT !.outcome = "running"]
                /\ visits' = r.visits
    /\ UNCHANGED <<parsed, store, conn, ui, vi, place_id, place_id_counter,
                   visit_id_counter, inserted_count, total_visits_added, clock>>

\* variant: the counters start at 1 whatever the store holds
ConnectNoMax ==
    /\ pc = "connect"
    /\ conn' = store
    /\ place_id_counter' = 1
    /\ visit_id_counter' = 1
    /\ inserted_count' = 0
    /\ total_visits_added' = 0
    /\ ui' = 1
    /\ pc' = "url"
    /\ run' = [run EXCEPT !.opened = TRUE]
    /\ UNCHANGED <<doc, parsed, store, visits, vi, place_id, clock, pre, used>>

\* import_to_firefox, lines 113-130
Connect ==
    /\ pc = "connect"
    /\ conn' = store
    /\ place_id_counter' = MaxIdOrZero(store.places) + 1
    /\ visit_id_counter' = MaxIdOrZero(store.visits) + 1
    /\ inserted_count' = 0
    /\ total_visits_added' = 0
    /\ ui' = 1
    /\ pc' = "url"
    /\ run' = [run EXCEPT !.opened = TRUE]
    /\ UNCHANGED <<doc, parsed, store, visits, vi, place_id, clock, pre, used>>

\* lines 132-169 for the URL at ui
ProcessPlace ==
    /\ pc = "url"
    /\ ui <= Len(visits)
    /\ LET url == visits[ui].url
           visit_list == visits[ui].list
       IN  IF PlaceRaises(visit_list)
           THEN /\ Finish("store", 1, <<0, 0>>)
                /\ UNCHANGED clock
           ELSE
           LET latest == Latest(visit_list)
               title == latest.title
               last_visit_time == arc_to_firefox_time(latest.timestamp)
               visit_count == Len(visit_list)
               found == PlacesByUrl(conn, url)
           IN  /\ IF found # {}
                  THEN LET existing_place == CHOOSE p \in found : TRUE IN
                       /\ place_id' = existing_place.id
                       /\ place_id_counter' = place_id_counter
                       /\ IF IsNewer(last_visit_time, existing_place.last_visit_date)
                          THEN \E now \in NowValues :
                                 /\ ~FfGreater(clock, now)
                                 /\ clock' = now
                                 /\ conn' = [conn EXCEPT !.places =
                                       (@ \ {existing_place}) \cup
                                       {UpdatedPlace(existing_place, title,
                                           last_visit_time, visit_count,
                                           calculate_frecency(visit_count,
                                               last_visit_time, now))}]
                          ELSE UNCHANGED <<conn, clock>>
                  ELSE \E now \in NowValues, h \in PyHashValues :
                         /\ ~FfGreater(clock, now)
                         /\ clock' = now
                         /\ conn' = [conn EXCEPT !.places = @ \cup
                               {NewPlace(place_id_counter, url, title, visit_count,
                                    calculate_frecency(visit_count,
                                        last_visit_time, now),
                                    last_visit_time, h)}]
                         /\ place_id' = place_id_counter
                         /\ place_id_counter' = place_id_counter + 1
               /\ vi' = 1
               /\ pc' = "visit"
               /\ UNCHANGED <<run, ui, visit_id_counter, inserted_count,
                              total_visits_added>>
    /\ UNCHANGED <<doc, parsed, store, visits, pre, used>>

\* lines 172-185 for the visit at vi; after the last one the URL is counted
InsertVisit ==
    /\ pc = "visit"
    /\ LET visit_list == visits[ui].list
           visit_time == arc_to_firefox_time(visit_list[vi].timestamp)
           absent == VisitsAt(conn, place_id, visit_time) = {}
       IN  /\ IF absent
              THEN /\ conn' = [conn EXCEPT !.visits = @ \cup
                          {NewVisit(visit_id_counter, place_id, visit_time)}]
                   /\ visit_id_counter' = visit_id_counter + 1
                   /\ total_visits_added' = total_visits_added + 1
              ELSE UNCHANGED <<conn, visit_id_counter, total_visits_added>>
           /\ IF vi < Len(visit_list)
              THEN /\ vi' = vi + 1
                   /\ UNCHANGED <<pc, ui, inserted_count>>
              ELSE /\ vi' = 0
                   /\ inserted_count' = inserted_count + 1
                   /\ ui' = ui + 1
                   /\ pc' = "url"
    /\ UNCHANGED <<doc, parsed, store, visits, place_id, place_id_counter,
                   clock, pre, run, used>>

\* lines 187-191, then main reports success
Commit ==
    /\ pc = "url"
    /\ ui > Len(visits)
    /\ store' = conn
    /\ Finish("ok", 0, <<inserted_count, total_visits_added>>)
    /\ UNCHANGED <<doc, parsed, visits, clock, pre, used>>

\* variant: the connection commits what it holds when the run fails
FailPartial ==
    /\ pc \in Running
    /\ store' = IF conn = NoConn THEN store ELSE conn
    /\ Finish("store", 1, <<0, 0>>)
    /\ UNCHANGED <<doc, parsed, visits, clock, pre, used>>

\* lines 193-196: sqlite3 raises anywhere in the run; nothing was committed
Fail ==
    /\ pc \in Running
    /\ Finish("store", 1, <<0, 0>>)
    /\ UNCHANGED <<doc, parsed, store, visits, clock, pre, used>>

Docs ==
    {Doc("garbage", <<>>), Doc("array", <<>>), Doc("noitems", <<>>), ScenarioDoc}
        \cup {Doc("items", q) : q \in SeqsUpTo(ImportItems, MaxItems)}

Next ==
    \/ BadPaths
    \/ \E d \in Docs, dry \in BOOLEAN : StartRun(d, dry)
    \/ Connect
    \/ ProcessPlace
    \/ InsertVisit
    \/ Commit
    \/ Fail

Spec == Init /\ [][Next]_vars

\* the same program started on an empty store
InitEmpty == Init /\ store = EmptyStore

SpecEmpty == InitEmpty /\ [][Next]_vars

-----------------------------------------------------------------------------
(* The parser alone *)

InitParse ==
    /\ InitCommon
    /\ doc \in {Doc("items", q) : q \in SeqsUpTo(ParseItems, MaxParseItems)}
    /\ pc = "parse"
    /\ store = EmptyStore
    /\ pre = EmptyStore

ParseCall ==
    /\ pc = "parse"
    /\ parsed' = parse_arc_history(load_arc_data(doc).data)
    /\ pc' = "parsed"
    /\ UNCHANGED <<doc, store, conn, visits, ui, vi, place_id, place_id_counter,
                   visit_id_counter, inserted_count, total_visits_added, clock,
                   pre, run, used>>

NextParse == ParseCall

SpecParse == InitParse /\ [][NextParse]_vars

-----------------------------------------------------------------------------
(* Properties *)

Committed == pc = "idle" /\ run.outcome = "ok"

PlaceIds(db) == {p.id : p \in db.places}

\* converted times of the records of a visit list
Times(visit_list) ==
    {arc_to_firefox_time(visit_list[k].timestamp) : k \in 1..Len(visit_list)}

\* the greatest of a non-empty set of Firefox times
MaxTime(S) == CHOOSE t \in S : \A u \in S : ~FfGreater(u, t)

NoDuplicateVisits(db) ==
    \A v, w \in db.visits :
        (v.place_id = w.place_id /\ v.visit_date = w.visit_date) => v = w

\* C1: in the committed store, and in the view of a running transaction, no
\* two VisitRows share the same (place_id, visit_date) pair, whatever archives
\* the runs were given.
C1_NoDuplicateVisits ==
    /\ NoDuplicateVisits(store)
    /\ conn # NoConn => NoDuplicateVisits(conn)

\* a committed run whose archive named one URL twice at the same converted
\* time, a visit the store already held before the run
C1_Witness ==
    /\ Committed
    /\ \E i \in 1..Len(visits) :
         /\ \E j, k \in 1..Len(visits[i].list) :
              /\ j # k
              /\ arc_to_firefox_time(visits[i].list[j].timestamp)
                   = arc_to_firefox_time(visits[i].list[k].timestamp)
         /\ \E p \in pre.places, v \in pre.visits :
              /\ p.url = visits[i].url
              /\ v.place_id = p.id
              /\ v.visit_date \in Times(visits[i].list)

\* C2: a run on the archive of the run before it, which committed, inserts no
\* VisitRow (not even inside its transaction), counts 0 visits added and leaves
\* the set of VisitRows as the first run left it.
C2_RerunAddsNoVisit ==
    (run.rerun /\ run.outcome \in {"running", "ok", "store"}) =>
        /\ store.visits = pre.visits
        /\ conn # NoConn => conn.visits = pre.visits
        /\ total_visits_added = 0
        /\ run.result[2] = 0

\* a second run on an archive of two visits has committed
C2_Witness ==
    /\ Committed
    /\ run.rerun
    /\ Len(doc.items) >= 2
    /\ Cardinality(store.visits) >= 2
    /\ run.result[1] >= 1

\* C3: nothing of a run is visible before its commit, a run that ends in an
\* error leaves the committed store as it was, and a run commits only after it
\* has processed every URL of the map.
C3_AllOrNothing ==
    /\ pc \in Running => store = pre
    /\ (pc = "idle" /\ run.outcome # "ok") => store = pre
    /\ Committed => run.result[1] = Len(visits)

\* a run failed with row changes pending in its transaction
C3_Witness ==
    /\ pc = "idle"
    /\ run.outcome = "store"
    /\ run.dirty
    /\ store = pre

\* C4: after a committed run, a URL of the map that was absent has exactly one
\* PlaceRow, whose identifier exceeds every identifier present before the run;
\* a URL that was present with an older last_visit_date keeps its row and
\* identifier, the row is updated in place, the URL's VisitRows hang on that
\* identifier, and the only new identifiers are those of the absent URLs.
C4_NewVersusExisting ==
    Committed =>
        /\ \A i \in 1..Len(visits) :
             LET url == visits[i].url
                 old == {p \in pre.places : p.url = url}
                 new == {p \in store.places : p.url = url}
                 cand == MaxTime(Times(visits[i].list))
             IN  /\ old = {} =>
                       /\ Cardinality(new) = 1
                       /\ \A p \in new, q \in pre.places : p.id > q.id
                       /\ \A p \in new : p.id > 0
                 /\ \A o \in old :
                       FfGreater(cand, OrZero(o.last_visit_date)) =>
                           /\ Cardinality(new) = 1
                           /\ \A p \in new :
                                /\ p.id = o.id
                                /\ p.last_visit_date = cand
                                /\ p.visit_count = o.visit_count + Len(visits[i].list)
                                /\ p.typed = 1 /\ p.hidden = 0
                                /\ p.guid = o.guid /\ p.rev_host = o.rev_host
                                /\ p.url_hash = o.url_hash
                                /\ p.foreign_count = o.foreign_count
                           /\ \A t \in Times(visits[i].list) :
                                \E v \in store.visits :
                                    v.place_id = o.id /\ v.visit_date = t
        /\ Cardinality(PlaceIds(store) \ PlaceIds(pre))
             = Cardinality({i \in 1..Len(visits) :
                               \A p \in pre.places : p.url # visits[i].url})

\* one committed run created a place for an absent URL and updated the place of
\* a URL whose stored last_visit_date was older
C4_Witness ==
    /\ Committed
    /\ \E i \in 1..Len(visits) : \A p \in pre.places : p.url # visits[i].url
    /\ \E i \in 1..Len(visits) : \E o \in pre.places :
         /\ o.url = visits[i].url
         /\ FfGreater(MaxTime(Times(visits[i].list)), OrZero(o.last_visit_date))

EmptyImport == Committed /\ pre = EmptyStore

\* what C5 says of the PlaceRows of an import into an empty store
C5_Places ==
    /\ Cardinality(store.places) = Len(visits)
    /\ \A i \in 1..Len(visits) :
         \E p \in store.places :
            /\ p.url = visits[i].url
            /\ p.visit_count = Len(visits[i].list)
            /\ p.last_visit_date = MaxTime(Times(visits[i].list))
            /\ \E k \in 1..Len(visits[i].list) :
                 /\ p.title = visits[i].list[k].title
                 /\ \A j \in 1..Len(visits[i].list) :
                      ~NumLess(visits[i].list[k].timestamp.v,
                               visits[i].list[j].timestamp.v)

\* C5 as stated: one PlaceRow per URL and one VisitRow per distinct
\* (URL, timestamp) pair of the map.
C5_AsStated ==
    EmptyImport =>
        /\ C5_Places
        /\ Cardinality(store.visits) =
             Cardinality(UNION {{<<i, visits[i].list[k].timestamp.v>> :
                                    k \in 1..Len(visits[i].list)} :
                                i \in 1..Len(visits)})

\* C5 as amended: one PlaceRow per URL and one VisitRow per distinct
\* (URL, converted timestamp) pair of the map; visit_count, last_visit_date and
\* title as stated.
C5_EmptyStoreImport ==
    EmptyImport =>
        /\ C5_Places
        /\ Cardinality(store.visits) =
             Cardinality(UNION {{<<i, t>> : t \in Times(visits[i].list)} :
                                i \in 1..Len(visits)})
        /\ \A i \in 1..Len(visits) : \A t \in Times(visits[i].list) :
             \E p \in store.places :
                /\ p.url = visits[i].url
                /\ Cardinality({v \in store.visits :
                                   v.place_id = p.id /\ v.visit_date = t}) = 1

\* the documented scenario: two PlaceRows, three VisitRows, the first URL with
\* visit_count 2 and the last_visit_date of timestamp 200
C5_Witness ==
    /\ EmptyImport
    /\ Cardinality(store.places) = 2
    /\ Cardinality(store.visits) = 3
    /\ \E p \in store.places :
         /\ p.url = ChA
         /\ p.visit_count = 2
         /\ p.last_visit_date = arc_to_firefox_time(T200)

\* an item C6 calls well-formed: records at every level, string URL and title
WellFormed(item) ==
    /\ IsDict(item) /\ HasKey(item, "sidebarItem")
    /\ IsDict(item.v["sidebarItem"]) /\ HasKey(item.v["sidebarItem"], "data")
    /\ IsDict(item.v["sidebarItem"].v["data"])
    /\ HasKey(item.v["sidebarItem"].v["data"], "tab")
    /\ LET tab == item.v["sidebarItem"].v["data"].v["tab"]
       IN  /\ IsDict(tab)
           /\ HasKey(tab, "savedURL") /\ tab.v["savedURL"].t = "str"
           /\ HasKey(tab, "savedTitle") /\ tab.v["savedTitle"].t = "str"

\* C6: parse_arc_history does not fail, and its result is what the well-formed
\* items of the archive alone give: a malformed item is left out, nothing else.
C6_MalformedItemsSkipped ==
    pc = "parsed" =>
        /\ parsed.ok
        /\ parsed.visits =
             ParseLoop(<<>>, SelectSeq(load_arc_data(doc).data.v["items"],
                                       WellFormed)).visits

\* C7 as stated: a run (without --dry-run) on an archive that does not decode,
\* or decodes to an object yielding no visit, ends as a FormatError with a
\* non-zero exit and has not opened the store.  Runs the store itself failed
\* are left aside, so that what refutes the statement is a run that succeeds.
NoVisitArchive ==
    /\ doc.kind \in {"noitems", "items"}
    /\ parse_arc_history(ArcData(doc.items)).visits = <<>>

C8_KeysTrimmedNonEmpty ==
    (pc = "parsed" /\ parsed.ok) =>
        /\ \A i \in 1..Len(parsed.visits) :
             /\ parsed.visits[i].url # <<>>
             /\ Strip(parsed.visits[i].url) = parsed.visits[i].url
        /\ \A i, j \in 1..Len(parsed.visits) :
             parsed.visits[i].url = parsed.visits[j].url => i = j

\* C9: after a committed run, the PlaceRow of a URL that was present with a
\* last_visit_date (null as 0) not below the candidate is the row it was, in
\* every column, and the VisitRows added for it are exactly those of the URL's
\* converted timestamps that were not yet present.
C9_NotNewerLeavesPlace ==
    Committed =>
        \A i \in 1..Len(visits) : \A o \in pre.places :
            (/\ o.url = visits[i].url
             /\ ~FfGreater(MaxTime(Times(visits[i].list)),
                           OrZero(o.last_visit_date))) =>
                /\ o \in store.places
                /\ Cardinality({p \in store.places : p.url = o.url}) = 1
                /\ {v.visit_date : v \in {w \in store.visits \ pre.visits :
                                             w.place_id = o.id}}
                     = {t \in Times(visits[i].list) :
                           \A w \in pre.visits :
                               ~(w.place_id = o.id /\ w.visit_date = t)}

\* a committed run left the place of a present URL alone and added a VisitRow
\* for it
C9_Witness ==
    /\ Committed
    /\ \E i \in 1..Len(visits) : \E o \in pre.places :
         /\ o.url = visits[i].url
         /\ ~FfGreater(MaxTime(Times(visits[i].list)), OrZero(o.last_visit_date))
         /\ o \in store.places
         /\ \E v \in store.visits \ pre.visits : v.place_id = o.id

LastVisitIsMax(db) ==
    \A p \in db.places :
        /\ \E v \in db.visits :
             v.place_id = p.id /\ v.visit_date = p.last_visit_date
        /\ \A v \in db.visits :
             v.place_id = p.id => ~FfGreater(v.visit_date, p.last_visit_date)

\* C10: from an empty store, after every step the last_visit_date of every
\* committed PlaceRow is the greatest visit_date of its VisitRows, and no step
\* removes a PlaceRow or lowers its last_visit_date.
C10_LastVisitIsMax ==
    [][/\ LastVisitIsMax(store')
       /\ \A p \in store.places : \E q \in store'.places :
            /\ q.id = p.id
            /\ ~FfGreater(p.last_visit_date, q.last_visit_date)]_vars

\* a later run raised the last_visit_date of a place an earlier run created
C10_Witness ==
    /\ Committed
    /\ \E p \in pre.places, q \in store.places :
         /\ q.id = p.id
         /\ FfGreater(q.last_visit_date, p.last_visit_date)
         /\ Cardinality({v \in store.visits : v.place_id = q.id}) >= 2

====
